---- MODULE Spec2Model ----
(***************************************************************************)
(* CollabNotes (src/app.py): an in-memory dictionary of notes keyed by a   *)
(* generated identifier, the four functions over it (create_note,          *)
(* get_note, update_note, delete_note), the PDF conversion generate_pdf    *)
(* and the Streamlit page function main.                                   *)
(*                                                                         *)
(* Python values whose type decides the control flow of main (what         *)
(* st.multiselect and st.selectbox return) carry a "kind" tag, so that an  *)
(* attribute lookup or a subscript on the wrong type raises as it does in  *)
(* Python.                                                                 *)
(***************************************************************************)
EXTENDS FiniteSets, Integers, Sequences, TLC

(* ------------------------------ bounds --------------------------------- *)

\* Number of identifiers uuid4 can hand out in a run of the model.
NumIds == 2

IDS == 1..NumIds

\* The texts a caller or the user can type.
Titles == {"a", "b"}
Contents == {"x", "y"}
CollaboratorLists == {<<>>, <<"u@mail">>}

(* --------------------------- Python values ----------------------------- *)

None == [kind |-> "None"]
PyStr(s) == [kind |-> "str", val |-> s]
PyList(items) == [kind |-> "list", val |-> items]
PyDict(d) == [kind |-> "dict", val |-> d]

\* st.success / st.error: the message the page shows.
NoMsg == <<>>
Success(text) == <<"success", text>>
Error(text) == <<"error", text>>

VARIABLES
    notes,      \* src/app.py:8   the module-level dictionary, id -> note
    issued,     \* the identifiers uuid.uuid4 has returned so far
    removed,    \* history: the identifiers delete_note has removed
    creates,    \* history: the number of create_note calls
    screen,     \* the widgets of the page the last run of main rendered
    last        \* the last call: its name, arguments, return value, message

vars == <<notes, issued, removed, creates, screen, last>>

(* ----------------------------- functions ------------------------------- *)

\* The note dictionary create_note builds (lines 22-27).
Note(note_id, title, content, collaborators) ==
    [id |-> note_id, title |-> title, content |-> content,
     collaborators |-> collaborators]

\* uuid.uuid4(): a random 122-bit token, idealised as never repeating: the
\* set of values the next call can return.
uuid4_reuse(used) == IDS \ DOMAIN notes
uuid4_any(used) == IDS
uuid4(used) == IDS \ used

\* d[k] = v on a Python dictionary.
SetItem(d, k, v) == [x \in DOMAIN d \cup {k} |-> IF x = k THEN v ELSE d[x]]

\* del d[k]
DelItem(d, k) == [x \in DOMAIN d \ {k} |-> d[x]]

\* create_note, given the identifier uuid4 returned: the store and message.
create_note_swapped(store, note_id, title, content, collaborators) ==
    [store |-> SetItem(store, note_id, Note(note_id, content, title, collaborators)),
     msg |-> Success("Note created successfully!")]
create_note(store, note_id, title, content, collaborators) ==
    [store |-> SetItem(store, note_id, Note(note_id, title, content, collaborators)),
     msg |-> Success("Note created successfully!")]

get_note(store, note_id) ==
    IF note_id \in DOMAIN store THEN PyDict(store[note_id]) ELSE None

update_note_keeps_collaborators(store, note_id, title, content, collaborators) ==
    IF note_id \in DOMAIN store
    THEN [store |-> [store EXCEPT ![note_id].title = title,
                                  ![note_id].content = content],
          msg |-> Success("Note updated successfully!")]
    ELSE [store |-> store, msg |-> Error("Note not found!")]
update_note(store, note_id, title, content, collaborators) ==
    IF note_id \in DOMAIN store
    THEN [store |-> [store EXCEPT ![note_id].title = title,
                                  ![note_id].content = content,
                                  ![note_id].collaborators = collaborators],
          msg |-> Success("Note updated successfully!")]
    ELSE [store |-> store, msg |-> Error("Note not found!")]

delete_note_silent(store, note_id) ==
    IF note_id \in DOMAIN store
    THEN [store |-> DelItem(store, note_id),
          msg |-> Success("Note deleted successfully!")]
    ELSE [store |-> store, msg |-> Success("Note deleted successfully!")]
delete_note_by_title(store, note_id) ==
    IF note_id \in DOMAIN store
    THEN [store |-> [x \in {y \in DOMAIN store :
                              store[y].title # store[note_id].title} |-> store[x]],
          msg |-> Success("Note deleted successfully!")]
    ELSE [store |-> store, msg |-> Error("Note not found!")]
delete_note(store, note_id) ==
    IF note_id \in DOMAIN store
    THEN [store |-> DelItem(store, note_id),
          msg |-> Success("Note deleted successfully!")]
    ELSE [store |-> store, msg |-> Error("Note not found!")]

\* generate_pdf: the drawing calls made on the canvas, in order; the buffer
\* holds the page they produce.
generate_pdf_with_collaborators(note) ==
    [kind |-> "pdf",
     font |-> <<"Helvetica", 12>>,
     page |-> << <<50, 750, "Title: " \o note.title>>,
                 <<50, 720, "Content:\n" \o note.content>>,
                 <<50, 690, note.collaborators>> >>]
generate_pdf(note) ==
    [kind |-> "pdf",
     font |-> <<"Helvetica", 12>>,
     page |-> << <<50, 750, "Title: " \o note.title>>,
                 <<50, 720, "Content:\n" \o note.content>> >>]

(* ------------------------- Python and Streamlit ------------------------ *)

\* Whether a value of this type has the attribute: list has no split.
HasAttr(v, attr) ==
    CASE attr = "split" -> v.kind = "str"
      [] attr = "strip" -> v.kind = "str"
      [] OTHER -> FALSE

\* Whether v[key] is defined for a string key: a str takes integer indices
\* only (TypeError otherwise), a dict takes its keys.
CanSubscript(v, key) ==
    CASE v.kind = "dict" -> key \in DOMAIN v.val
      [] OTHER -> FALSE

\* str.split(sep) on a string held as a sequence of characters.
RECURSIVE split(_, _)
split(chars, sep) ==
    IF \E i \in 1..Len(chars) : chars[i] = sep
    THEN LET i == CHOOSE k \in 1..Len(chars) :
                    chars[k] = sep /\ \A j \in 1..(k - 1) : chars[j] # sep
         IN <<SubSeq(chars, 1, i - 1)>> \o split(SubSeq(chars, i + 1, Len(chars)), sep)
    ELSE <<chars>>

\* str.strip(): leading and trailing blanks removed.
RECURSIVE strip(_)
strip(chars) ==
    IF chars = <<>> THEN chars
    ELSE IF Head(chars) = " " THEN strip(Tail(chars))
    ELSE IF chars[Len(chars)] = " " THEN strip(SubSeq(chars, 1, Len(chars) - 1))
    ELSE chars

\* st.multiselect(label, options): the list of the options selected, in the
\* options' order; selected is the set of positions picked.
multiselect(options, selected) ==
    LET picked == SelectSeq([i \in 1..Len(options) |-> <<i, options[i]>>],
                            LAMBDA p : p[1] \in selected)
    IN PyList([i \in 1..Len(picked) |-> picked[i][2]])

\* st.selectbox(label, options): the option picked, here a title string.
selectbox(options, index) == PyStr(options[index])

\* list(notes.values()): the stored notes as a list.
RECURSIVE values(_, _)
values(store, ids) ==
    IF ids = {} THEN <<>>
    ELSE LET k == CHOOSE x \in ids : \A y \in ids : x <= y
         IN <<store[k]>> \o values(store, ids \ {k})

(* ------------------------------- state --------------------------------- *)

\* The identifiers a caller can pass: the generated ones and one, 0, that
\* uuid4 never returns.
CallerIds == IDS \cup {0}

Call(op, args, ret, msg, exc) ==
    [op |-> op, args |-> args, ret |-> ret, msg |-> msg, exc |-> exc]

Init ==
    /\ notes = [x \in {} |-> None]
    /\ issued = {}
    /\ removed = {}
    /\ creates = 0
    /\ screen = {}
    /\ last = Call("import", <<>>, None, NoMsg, "none")

(* ------------------------------ actions -------------------------------- *)

CreateNote ==
    /\ creates < NumIds
    /\ \E title \in Titles, content \in Contents,
          collaborators \in CollaboratorLists, note_id \in uuid4(issued) :
          LET r == create_note(notes, note_id, title, content, collaborators)
          IN /\ notes' = r.store
             /\ issued' = issued \cup {note_id}
             /\ creates' = creates + 1
             /\ last' = Call("create_note",
                             [title |-> title, content |-> content,
                              collaborators |-> collaborators],
                             None, r.msg, "none")
    /\ UNCHANGED <<removed, screen>>

GetNote ==
    /\ \E note_id \in CallerIds :
          last' = Call("get_note", [note_id |-> note_id],
                       get_note(notes, note_id), NoMsg, "none")
    /\ UNCHANGED <<notes, issued, removed, creates, screen>>

UpdateNote ==
    /\ \E note_id \in CallerIds, title \in Titles, content \in Contents,
          collaborators \in CollaboratorLists :
          LET r == update_note(notes, note_id, title, content, collaborators)
          IN /\ notes' = r.store
             /\ last' = Call("update_note",
                             [note_id |-> note_id, title |-> title,
                              content |-> content,
                              collaborators |-> collaborators],
                             None, r.msg, "none")
    /\ UNCHANGED <<issued, removed, creates, screen>>

DeleteNote ==
    /\ \E note_id \in CallerIds :
          LET r == delete_note(notes, note_id)
          IN /\ notes' = r.store
             /\ removed' = IF note_id \in DOMAIN notes
                            THEN removed \cup {note_id} ELSE removed
             /\ last' = Call("delete_note", [note_id |-> note_id],
                             None, r.msg, "none")
    /\ UNCHANGED <<issued, creates, screen>>

GeneratePdf ==
    /\ \E note_id \in DOMAIN notes :
          last' = Call("generate_pdf", [note |-> notes[note_id]],
                       generate_pdf(notes[note_id]), NoMsg, "none")
    /\ UNCHANGED <<notes, issued, removed, creates, screen>>

(* -------------------------------- main --------------------------------- *)

\* The buttons of the page; "none" is a run in which no button was clicked.
Buttons == {"none", "Create Note", "Update Note", "Download PDF"}

\* What a run of main showed and did: the widgets rendered, the notes shown
\* under the "Note:" subheader, and the calls made to the functions above.
Page(widgets, shown, calls) ==
    [kind |-> "page", widgets |-> widgets, shown |-> shown, calls |-> calls]

\* The run ends, by returning or by the exception exc leaving main.
MainEnds(button, store, ids, n, page, msg, exc) ==
    /\ notes' = store
    /\ issued' = ids
    /\ creates' = n
    /\ screen' = page.widgets
    /\ last' = Call("main", [button |-> button], page, msg, exc)
    /\ UNCHANGED removed

CreateWidgets == {"Note Title", "Note Content", "Collaborators"}
ViewWidgets ==
    {"Select Note", "Update Title", "Update Content", "Update Collaborators",
     "Update Note", "Download PDF"}

\* Lines 85-115: the view and edit section.
ViewSection(button, store, ids, n, widgets, calls, msg) ==
    LET notes_list == values(store, DOMAIN store)
    IN IF notes_list = <<>>
       THEN MainEnds(button, store, ids, n, Page(widgets, {}, calls), msg, "none")
       ELSE \E index \in 1..Len(notes_list) :
              LET titles == [i \in 1..Len(notes_list) |-> notes_list[i].title]
                  selected_note == selectbox(titles, index)
              IN IF ~CanSubscript(selected_note, "id")
                 THEN MainEnds(button, store, ids, n,
                               Page(widgets \cup {"Select Note"}, {}, calls),
                               msg, "TypeError")
                 ELSE LET selected_note_data == store[selected_note.val["id"]]
                          options == selected_note_data.collaborators
                      IN \E updated_title \in Titles, updated_content \in Contents,
                            picked \in SUBSET (1..Len(options)) :
                            LET updated_collaborators == multiselect(options, picked).val
                                u == IF button = "Update Note"
                                     THEN update_note(store, selected_note_data.id,
                                                      updated_title, updated_content,
                                                      updated_collaborators)
                                     ELSE [store |-> store, msg |-> msg]
                                made ==
                                    CASE button = "Update Note" ->
                                           <<[name |-> "update_note",
                                              note_id |-> selected_note_data.id]>>
                                      [] button = "Download PDF" ->
                                           <<[name |-> "generate_pdf",
                                              note_id |-> selected_note_data.id]>>
                                      [] OTHER -> <<>>
                                extra == IF button = "Download PDF"
                                         THEN {"Download Note as PDF"} ELSE {}
                            IN MainEnds(button, u.store, ids, n,
                                        Page(widgets \cup ViewWidgets \cup extra,
                                             {selected_note_data.id}, calls \o made),
                                        u.msg, "none")

\* Lines 72-82, then the view section: one run of the page script with the
\* given button clicked. A button can be clicked only if the page on screen
\* shows it.
MainRun(button) ==
    /\ button = "none" \/ button \in screen
    /\ \E note_title \in Titles, note_content \in Contents :
          LET collaborator_emails == multiselect(<<>>, {})
          IN IF ~HasAttr(collaborator_emails, "split")
             THEN MainEnds(button, notes, issued, creates,
                           Page(CreateWidgets, {}, <<>>), NoMsg, "AttributeError")
             ELSE LET parts == split(collaborator_emails.val, ",")
                      collaborators == [i \in 1..Len(parts) |-> strip(parts[i])]
                      widgets == CreateWidgets \cup {"Create Note"}
                  IN IF button = "Create Note"
                     THEN /\ creates < NumIds
                          /\ \E note_id \in uuid4(issued) :
                                LET c == create_note(notes, note_id, note_title,
                                                     note_content, collaborators)
                                IN ViewSection(button, c.store, issued \cup {note_id},
                                               creates + 1, widgets,
                                               <<[name |-> "create_note",
                                                  note_id |-> note_id]>>, c.msg)
                     ELSE ViewSection(button, notes, issued, creates, widgets,
                                      <<>>, NoMsg)

Main == \E button \in Buttons : MainRun(button)

Next ==
    \/ CreateNote
    \/ GetNote
    \/ UpdateNote
    \/ DeleteNote
    \/ GeneratePdf
    \/ Main

Spec == Init /\ [][Next]_vars

\* The user keeps loading the page: a run of main that would change what is
\* on screen or in the store is eventually made.
FairSpec == Spec /\ WF_vars(Main)

(* ------------------------------- claims -------------------------------- *)

\* Every note a caller could hold.
AllNotes ==
    {Note(i, t, c, cl) : i \in IDS, t \in Titles, c \in Contents,
                         cl \in CollaboratorLists}

Created == Success("Note created successfully!")
Updated == Success("Note updated successfully!")
Deleted == Success("Note deleted successfully!")
NotFound == Error("Note not found!")

\* Whether the last run of main called the function.
MainCalled(name) ==
    /\ last.op = "main"
    /\ \E i \in DOMAIN last.ret.calls : last.ret.calls[i].name = name

\* C1: a create_note(title, content, collaborators) call adds exactly one
\* entry to the store, and get_note on the new identifier returns a note
\* whose title, content and collaborators are the arguments and whose id
\* field is the identifier it is stored under.
C1_CreateYieldsRetrievableNote ==
    [][last'.op = "create_note" =>
         \E note_id \in DOMAIN notes' \ DOMAIN notes :
            /\ DOMAIN notes' = DOMAIN notes \cup {note_id}
            /\ get_note(notes', note_id) =
                  PyDict(Note(note_id, last'.args.title, last'.args.content,
                              last'.args.collaborators))]_vars

\* C1 witness: a create_note call made on a non-empty store.
C1_Witness ==
    /\ last.op = "create_note"
    /\ last.msg = Created
    /\ Cardinality(DOMAIN notes) = 2

\* C2: update_note on a stored identifier replaces title, content and
\* collaborators by the arguments, keeps the note's id field and the set of
\* stored identifiers, and reports the success message.
C2_UpdateReplacesAllFields ==
    [][(last'.op = "update_note" /\ last'.args.note_id \in DOMAIN notes) =>
         LET note_id == last'.args.note_id
         IN /\ DOMAIN notes' = DOMAIN notes
            /\ get_note(notes', note_id).kind = "dict"
            /\ get_note(notes', note_id).val.title = last'.args.title
            /\ get_note(notes', note_id).val.content = last'.args.content
            /\ get_note(notes', note_id).val.collaborators = last'.args.collaborators
            /\ get_note(notes', note_id).val.id = notes[note_id].id
            /\ last'.msg = Updated]_vars

\* C2 witness: an update_note call on a stored identifier, with another
\* note in the store.
C2_Witness ==
    /\ last.op = "update_note"
    /\ last.args.note_id \in DOMAIN notes
    /\ last.msg = Updated
    /\ notes[last.args.note_id].collaborators # <<>>
    /\ Cardinality(DOMAIN notes) = 2

\* C3: an identifier delete_note has removed is looked up as None from
\* then on, whatever create_note, update_note and delete_note calls follow.
C3_DeletedStaysGone ==
    \A note_id \in removed : get_note(notes, note_id) = None

\* C3 witness: update_note was called on a deleted identifier while the
\* store held another note, and reported not-found.
C3_Witness ==
    /\ last.op = "update_note"
    /\ last.args.note_id \in removed
    /\ last.msg = NotFound
    /\ DOMAIN notes # {}

\* C4 as stated: on an identifier that is not in the store, get_note,
\* update_note and delete_note each show an error message.
C4_AllThreeShowNotFound ==
    [][(/\ last'.op \in {"get_note", "update_note", "delete_note"}
        /\ last'.args.note_id \notin DOMAIN notes) =>
         (last'.msg # NoMsg /\ last'.msg[1] = "error")]_vars

\* C4 as amended: on an identifier that is not in the store, update_note and
\* delete_note show the error "Note not found!"; get_note shows no message
\* and returns None.
C4_UpdateDeleteShowNotFound ==
    [][(last'.op \in {"get_note", "update_note", "delete_note"}
        /\ last'.args.note_id \notin DOMAIN notes) =>
         /\ last'.op \in {"update_note", "delete_note"} => last'.msg = NotFound
         /\ last'.op = "get_note" => (last'.msg = NoMsg /\ last'.ret = None)]_vars

\* C4 witness: delete_note on an unknown identifier reported not-found.
C4_Witness ==
    /\ last.op = "delete_note"
    /\ last.args.note_id \notin removed
    /\ last.msg = NotFound

\* C5: create_note stores under an identifier that is not in the store and
\* leaves every existing note as it was; after n create_note calls and no
\* deletion the store holds n notes.
C5_CreateUsesFreshId ==
    /\ [][last'.op = "create_note" =>
            /\ DOMAIN notes' \ DOMAIN notes # {}
            /\ \A k \in DOMAIN notes :
                  k \in DOMAIN notes' /\ notes'[k] = notes[k]]_vars
    /\ [](removed = {} => Cardinality(DOMAIN notes) = creates)

\* C5 witness: NumIds creates, no deletion, NumIds notes in the store.
C5_Witness ==
    /\ last.op = "create_note"
    /\ removed = {}
    /\ creates = NumIds
    /\ Cardinality(DOMAIN notes) = NumIds

\* Holds in every reachable state: each run of main ends with the
\* AttributeError of line 79, having called no function of the store and
\* shown no note. It is why C6, C8 and C9 fail.
MainAlwaysRaises ==
    last.op = "main" =>
        /\ last.exc = "AttributeError"
        /\ last.ret.calls = <<>>
        /\ last.ret.shown = {}
        /\ screen = CreateWidgets

\* C6 as stated: over repeated runs of main the user gets a note created,
\* then shown, then updated and then deleted through the page.
C6_PageOffersAllFourOperations ==
    <>(MainCalled("create_note") /\
       <>((last.op = "main" /\ last.ret.shown # {}) /\
          <>(MainCalled("update_note") /\ <>MainCalled("delete_note"))))

\* C7: generate_pdf leaves the store (and the stored note passed in)
\* unchanged, and its output is the output for any note with the same title
\* and content, whatever its id and collaborators.
C7_PdfDependsOnTitleAndContent ==
    [][last'.op = "generate_pdf" =>
         /\ notes' = notes
         /\ \A n \in AllNotes :
               (n.title = last'.args.note.title /\
                n.content = last'.args.note.content) =>
                   generate_pdf(n) = last'.ret]_vars

\* C7 witness: generate_pdf was called on a note while the store held
\* another note with the same title and content and other collaborators.
C7_Witness ==
    /\ last.op = "generate_pdf"
    /\ \E k \in DOMAIN notes :
          /\ notes[k].id # last.args.note.id
          /\ notes[k].title = last.args.note.title
          /\ notes[k].content = last.args.note.content
          /\ notes[k].collaborators # last.args.note.collaborators

\* C8 as stated: a run of main (the collaborator selection is always a
\* well-formed list) does not raise in the Create section and renders the
\* Create Note button; a click on it calls create_note.
C8_CreateSectionCompletes ==
    last.op = "main" =>
        /\ last.exc # "AttributeError"
        /\ "Create Note" \in last.ret.widgets
        /\ last.args.button = "Create Note" => MainCalled("create_note")

\* C9 as stated: a run of main on a non-empty store shows a stored note,
\* the one picked, and an update made by the run goes to that note.
C9_ViewSectionResolvesSelection ==
    [][(last'.op = "main" /\ DOMAIN notes # {}) =>
         /\ last'.ret.shown # {}
         /\ last'.ret.shown \subseteq DOMAIN notes
         /\ \A i \in DOMAIN last'.ret.calls :
               last'.ret.calls[i].name = "update_note" =>
                   last'.ret.calls[i].note_id \in last'.ret.shown]_vars

\* C10: update_note and delete_note on an identifier that is not in the
\* store leave the store unchanged; on a stored identifier they leave every
\* other note in the store with all its fields.
C10_OnlyAddressedNoteTouched ==
    [][last'.op \in {"update_note", "delete_note"} =>
         IF last'.args.note_id \notin DOMAIN notes
         THEN notes' = notes
         ELSE \A k \in DOMAIN notes \ {last'.args.note_id} :
                 k \in DOMAIN notes' /\ notes'[k] = notes[k]]_vars

\* C10 witness: delete_note removed one note and another one is still
\* stored.
C10_Witness ==
    /\ last.op = "delete_note"
    /\ last.msg = Deleted
    /\ DOMAIN notes # {}

====
